---- MODULE Spec2Model ----
(***************************************************************************)
(* Model of jfrog-cli/artifactory/commands/generic/upload.go: the Upload   *)
(* orchestrator, its helpers getMinChecksumDeploySize, addBuildProps,      *)
(* getUploadParams and convertFileInfoToBuildArtifacts, and the            *)
(* collaborators Upload calls (security dir lookup, service client,        *)
(* build-info persistence, build-property formatter).                      *)
(*                                                                         *)
(* Strings that the code inspects character-wise (the environment          *)
(* override, property strings, build name and number) are sequences of     *)
(* one-character strings.  The optional boolean overrides of a spec entry  *)
(* are atomic strings, "" meaning absent.                                  *)
(***************************************************************************)
EXTENDS Integers, Sequences, FiniteSets, TLC

\* ------------------------------------------------------------------ bounds
\* Longest specification (number of entries) explored.
MaxEntries == 2
\* Most local files one entry's pattern matches.
MaxFiles == 3
\* Longest value of the environment override explored when
\* getMinChecksumDeploySize is checked on its own.
MaxEnvLen == 5
\* Longest property string explored when addBuildProps is checked on its own.
MaxPropsLen == 4

\* --------------------------------------------------------- program constants
\* upload.go:122, the value returned when the override is absent.
DefaultMinChecksumDeploySize == 10240
\* upload.go:129, the factor applied to a numeric override.
KbFactor == 1000

\* ------------------------------------------------------------------ errors
Nil == "nil"
ErrSecurityDir == "GetJfrogSecurityDir failed"
ErrParseInt == "strconv.ParseInt: invalid syntax"
ErrArtAuth == "CreateArtAuthConfig failed"
ErrConfigBuild == "ConfigBuilder.Build failed"
ErrNewManager == "artifactory.New failed"
ErrGeneralDetails == "SaveBuildGeneralDetails failed"
ErrBuildProps == "CreateBuildProperties failed"
ErrParseBool == "strconv.ParseBool: invalid syntax"
ErrTransfer == "UploadFiles failed"
ErrFinishedWithErrors == "Upload finished with errors. Please review the logs"
ErrPartialSave == "SavePartialBuildInfo failed"

\* ----------------------------------------------------------------- strings
Digits == {"0", "1", "2", "3", "4", "5", "6", "7", "8", "9"}

DigitVal(c) ==
    CASE c = "0" -> 0 [] c = "1" -> 1 [] c = "2" -> 2 [] c = "3" -> 3
      [] c = "4" -> 4 [] c = "5" -> 5 [] c = "6" -> 6 [] c = "7" -> 7
      [] c = "8" -> 8 [] c = "9" -> 9

\* strings.HasSuffix(s, ";")
HasSuffixSemi(s) == Len(s) > 0 /\ s[Len(s)] = ";"

RECURSIVE DecimalValue(_)
\* Value of a non-empty sequence of decimal digits, most significant first.
DecimalValue(s) ==
    IF Len(s) = 0 THEN 0
    ELSE 10 * DecimalValue(SubSeq(s, 1, Len(s) - 1)) + DigitVal(s[Len(s)])

\* strconv.ParseInt(s, 10, 64): an optional sign followed by at least one
\* decimal digit; anything else is a syntax error.  (The strings explored
\* are far too short to leave the 64-bit range.)
ParseInt(s) ==
    LET signed == Len(s) > 0 /\ s[1] \in {"+", "-"}
        body == IF signed THEN SubSeq(s, 2, Len(s)) ELSE s
        wellFormed == Len(body) > 0 /\ \A k \in 1..Len(body) : body[k] \in Digits
    IN  IF ~wellFormed THEN [val |-> 0, err |-> ErrParseInt]
        ELSE [val |-> IF signed /\ s[1] = "-" THEN 0 - DecimalValue(body)
                      ELSE DecimalValue(body),
              err |-> Nil]

\* strconv.ParseBool
TrueStrs == {"1", "t", "T", "TRUE", "true", "True"}
FalseStrs == {"0", "f", "F", "FALSE", "false", "False"}

\* clientutils.StringToBool(raw, default), the body of File.IsRecursive,
\* IsRegexp, IsIncludeDirs, IsFlat and IsExplode.
StringToBool(raw, defaultValue) ==
    IF raw = "" THEN [val |-> defaultValue, err |-> Nil]
    ELSE IF raw \in TrueStrs THEN [val |-> TRUE, err |-> Nil]
    ELSE IF raw \in FalseStrs THEN [val |-> FALSE, err |-> Nil]
    ELSE [val |-> FALSE, err |-> ErrParseBool]

\* ------------------------------------------------------------ pure helpers
\* getMinChecksumDeploySize, upload.go:119-130, as a function of the value
\* of JFROG_CLI_MIN_CHECKSUM_DEPLOY_SIZE_KB ("" when unset).
getMinChecksumDeploySize(envValue) ==
    IF envValue = <<>> THEN [val |-> DefaultMinChecksumDeploySize, err |-> Nil]
    ELSE LET parsed == ParseInt(envValue)
         IN  IF parsed.err # Nil THEN [val |-> 0, err |-> parsed.err]
             ELSE [val |-> parsed.val * KbFactor, err |-> Nil]

\* utils.CreateBuildProperties(name, number): the possible results of the
\* formatter, an error or the fragment build.name=<name>;build.number=<number>.
BuildPropsFragment(buildName, buildNumber) ==
    <<"b", "u", "i", "l", "d", ".", "n", "a", "m", "e", "=">> \o buildName
    \o <<";", "b", "u", "i", "l", "d", ".", "n", "u", "m", "b", "e", "r", "=">>
    \o buildNumber

CreateBuildProperties(buildName, buildNumber) ==
    { [props |-> <<>>, err |-> ErrBuildProps],
      [props |-> BuildPropsFragment(buildName, buildNumber), err |-> Nil] }

\* A separator put before the fragment whenever the string is non-empty.
addBuildProps_AlwaysSep(props, buildName, buildNumber, formatted) ==
    IF buildName = <<>> \/ buildNumber = <<>>
    THEN [props |-> props, err |-> Nil, formatterCalled |-> FALSE]
    ELSE IF formatted.err # Nil
    THEN [props |-> props, err |-> formatted.err, formatterCalled |-> TRUE]
    ELSE [props |-> props \o (IF Len(props) > 0 THEN <<";">> ELSE <<>>)
                          \o formatted.props,
          err |-> Nil, formatterCalled |-> TRUE]

\* Only the build name is tested before the formatter is called.
addBuildProps_NameOnly(props, buildName, buildNumber, formatted) ==
    IF buildName = <<>>
    THEN [props |-> props, err |-> Nil, formatterCalled |-> FALSE]
    ELSE IF formatted.err # Nil
    THEN [props |-> props, err |-> formatted.err, formatterCalled |-> TRUE]
    ELSE LET sep == IF Len(props) > 0 /\ ~HasSuffixSemi(props) /\ Len(formatted.props) > 0
                    THEN <<";">> ELSE <<>>
         IN  [props |-> props \o sep \o formatted.props, err |-> Nil,
              formatterCalled |-> TRUE]

\* addBuildProps, upload.go:132-146.  formatted is what the formatter returns
\* if it is called; the result is the new property string, the returned
\* error and whether the formatter was called.
addBuildProps(props, buildName, buildNumber, formatted) ==
    IF buildName = <<>> \/ buildNumber = <<>>
    THEN [props |-> props, err |-> Nil, formatterCalled |-> FALSE]
    ELSE IF formatted.err # Nil
    THEN [props |-> props, err |-> formatted.err, formatterCalled |-> TRUE]
    ELSE LET sep == IF Len(props) > 0 /\ ~HasSuffixSemi(props) /\ Len(formatted.props) > 0
                    THEN <<";">> ELSE <<>>
         IN  [props |-> props \o sep \o formatted.props, err |-> Nil,
              formatterCalled |-> TRUE]

\* The explode-archive flag taken from the configuration, not from the entry.
getUploadParams_ConfExplode(f, conf) ==
    LET recursive == StringToBool(f.Recursive, TRUE)
        regexp == StringToBool(f.Regexp, FALSE)
        includeDirs == StringToBool(f.IncludeDirs, FALSE)
        flat == StringToBool(f.Flat, TRUE)
        explode == StringToBool(f.Explode, FALSE)
        ok1 == recursive.err = Nil
        ok2 == ok1 /\ regexp.err = Nil
        ok3 == ok2 /\ includeDirs.err = Nil
        ok4 == ok3 /\ flat.err = Nil
        ok5 == ok4 /\ explode.err = Nil
        firstErr ==
            IF ~ok1 THEN recursive.err
            ELSE IF ~ok2 THEN regexp.err
            ELSE IF ~ok3 THEN includeDirs.err
            ELSE IF ~ok4 THEN flat.err
            ELSE explode.err
    IN  [err |-> firstErr,
         params |-> [Pattern |-> f.Pattern, Target |-> f.Target, Props |-> f.Props,
                     Recursive |-> recursive.val,
                     Regexp |-> ok1 /\ regexp.val,
                     IncludeDirs |-> ok2 /\ includeDirs.val,
                     Flat |-> ok3 /\ flat.val,
                     ExplodeArchive |-> ok5 /\ conf.ExplodeArchive,
                     Deb |-> IF ok5 THEN conf.Deb ELSE "",
                     Symlink |-> ok5 /\ conf.Symlink,
                     Retries |-> IF ok5 THEN conf.Retries ELSE 0]]

\* getUploadParams, upload.go:161-193: the five overrides are resolved in
\* order; the first unparseable one ends the resolution, and what was not
\* reached keeps the zero value NewUploadParams gave it.
getUploadParams(f, conf) ==
    LET recursive == StringToBool(f.Recursive, TRUE)
        regexp == StringToBool(f.Regexp, FALSE)
        includeDirs == StringToBool(f.IncludeDirs, FALSE)
        flat == StringToBool(f.Flat, TRUE)
        explode == StringToBool(f.Explode, FALSE)
        ok1 == recursive.err = Nil
        ok2 == ok1 /\ regexp.err = Nil
        ok3 == ok2 /\ includeDirs.err = Nil
        ok4 == ok3 /\ flat.err = Nil
        ok5 == ok4 /\ explode.err = Nil
        firstErr ==
            IF ~ok1 THEN recursive.err
            ELSE IF ~ok2 THEN regexp.err
            ELSE IF ~ok3 THEN includeDirs.err
            ELSE IF ~ok4 THEN flat.err
            ELSE explode.err
    IN  [err |-> firstErr,
         params |-> [Pattern |-> f.Pattern, Target |-> f.Target, Props |-> f.Props,
                     Recursive |-> recursive.val,
                     Regexp |-> ok1 /\ regexp.val,
                     IncludeDirs |-> ok2 /\ includeDirs.val,
                     Flat |-> ok3 /\ flat.val,
                     ExplodeArchive |-> ok4 /\ explode.val,
                     Deb |-> IF ok5 THEN conf.Deb ELSE "",
                     Symlink |-> ok5 /\ conf.Symlink,
                     Retries |-> IF ok5 THEN conf.Retries ELSE 0]]

\* FileInfo.ToBuildArtifacts: checksums copied, the name is the last segment
\* of the path in the repository.
ToBuildArtifacts(fileInfo) ==
    [Name |-> fileInfo.ArtifactoryPath[Len(fileInfo.ArtifactoryPath)],
     Sha1 |-> fileInfo.Sha1, Md5 |-> fileInfo.Md5]

\* The records filled from the last descriptor to the first.
convertFileInfoToBuildArtifacts_Reversed(infos) ==
    [k \in 1..Len(infos) |-> ToBuildArtifacts(infos[Len(infos) + 1 - k])]

\* convertFileInfoToBuildArtifacts, upload.go:95-101.
convertFileInfoToBuildArtifacts(infos) ==
    [k \in 1..Len(infos) |-> ToBuildArtifacts(infos[k])]

\* Build info collected as soon as one of name and number is given.
isCollectBuildInfo_Either(conf) == Len(conf.BuildName) > 0 \/ Len(conf.BuildNumber) > 0

\* upload.go:42
isCollectBuildInfo(conf) == Len(conf.BuildName) > 0 /\ Len(conf.BuildNumber) > 0

\* -------------------------------------------------------------- the inputs
\* Local files a pattern matches (the file system the run sees).
Matched(pattern) == IF pattern = "a/*" THEN MaxFiles ELSE 1

\* The specification entries (spec.File) explored: one with no overrides and
\* no properties, one with every override given and parseable, one whose
\* flat override is not a boolean.
SpecEntries ==
    { [Pattern |-> "a/*", Target |-> "repo/a/", Props |-> <<>>,
       Recursive |-> "", Regexp |-> "", IncludeDirs |-> "", Flat |-> "",
       Explode |-> ""],
      [Pattern |-> "b.txt", Target |-> "repo/b/", Props |-> <<"a", "=", "1">>,
       Recursive |-> "false", Regexp |-> "1", IncludeDirs |-> "T", Flat |-> "0",
       Explode |-> "true"],
      [Pattern |-> "a/*", Target |-> "repo/c/", Props |-> <<"a", "=", "1", ";">>,
       Recursive |-> "true", Regexp |-> "", IncludeDirs |-> "", Flat |-> "maybe",
       Explode |-> ""] }

SeqsUpTo(S, n) == UNION { [1..k -> S] : k \in 0..n }

SpecFiles == SeqsUpTo(SpecEntries, MaxEntries)

Configurations ==
    { [Deb |-> "deb/main/amd64", Threads |-> 3, BuildName |-> bn,
       BuildNumber |-> bnum, DryRun |-> dry, Symlink |-> TRUE,
       ExplodeArchive |-> TRUE, Retries |-> 3]
      : bn \in {<<>>, <<"x">>}, bnum \in {<<>>, <<"1">>}, dry \in BOOLEAN }

\* Values of JFROG_CLI_MIN_CHECKSUM_DEPLOY_SIZE_KB in a run of Upload: unset
\* or not a number.
EnvValues == { <<>>, <<"1", "0", "k">> }

\* Values of the override when getMinChecksumDeploySize is run on its own:
\* every string over EnvChars of at most MaxEnvLen characters.
EnvChars == {"-", "0", "1", "2", "4", "k"}

EnvStrings == SeqsUpTo(EnvChars, MaxEnvLen)

\* ---------------------------------------------------------------- the state
VARIABLES
    uploadSpec,             \* the specification; entries' Props are mutated in place
    configuration,          \* the UploadConfiguration
    env,                    \* JFROG_CLI_MIN_CHECKSUM_DEPLOY_SIZE_KB
    pc,                     \* position of Upload
    i,                      \* index of the running for loop (1-based)
    minChecksumDeploySize,  \* upload.go:28
    servicesManager,        \* upload.go:36
    filesInfo,              \* upload.go:53
    errorOccurred,          \* upload.go:54
    successCount,           \* named results of Upload
    failCount,
    err,
    partial,                \* the partial build-info record handed to persistence
    calls,                  \* the calls Upload has made, in order
    givenSpec,              \* the specification as it was handed to Upload
    buildProps,             \* upload.go:136, what the formatter returned last
    uploadParams            \* upload.go:57, the parameters resolved last

vars == <<uploadSpec, configuration, env, pc, i, minChecksumDeploySize,
          servicesManager, filesInfo, errorOccurred, successCount, failCount,
          err, partial, calls, givenSpec, buildProps, uploadParams>>

NoManager == [built |-> FALSE, DryRun |-> FALSE, MinChecksumDeploy |-> 0, Threads |-> 0]
NoPartial == [saved |-> FALSE, Artifacts |-> <<>>]
\* The zero value of services.UploadParams.
NoParams ==
    [Pattern |-> "", Target |-> "", Props |-> <<>>, Recursive |-> FALSE,
     Regexp |-> FALSE, IncludeDirs |-> FALSE, Flat |-> FALSE,
     ExplodeArchive |-> FALSE, Deb |-> "", Symlink |-> FALSE, Retries |-> 0]

\* One record of the call log.
Call(op, idx, e, uploaded, failed, artifacts) ==
    [op |-> op, i |-> idx, err |-> e, uploaded |-> uploaded, failed |-> failed,
     artifacts |-> artifacts]

SimpleCall(op, idx, e) == Call(op, idx, e, 0, 0, <<>>)

Init ==
    /\ uploadSpec \in SpecFiles
    /\ configuration \in Configurations
    /\ env \in EnvValues
    /\ pc = "GetJfrogSecurityDir"
    /\ i = 0
    /\ minChecksumDeploySize = 0
    /\ servicesManager = NoManager
    /\ filesInfo = <<>>
    /\ errorOccurred = FALSE
    /\ successCount = 0
    /\ failCount = 0
    /\ err = Nil
    /\ partial = NoPartial
    /\ calls = <<>>
    /\ givenSpec = uploadSpec
    /\ buildProps = <<>>
    /\ uploadParams = NoParams

\* ------------------------------------------------------- steps of Upload
NumEntries == Len(uploadSpec)

\* `return sc, fc, e`
Return(sc, fc, e) ==
    /\ successCount' = sc
    /\ failCount' = fc
    /\ err' = e
    /\ pc' = "done"

\* A run that goes on after a failed call instead of returning.
FatalOr_Ignore(e, nextPc) ==
    /\ pc' = nextPc
    /\ UNCHANGED <<successCount, failCount, err>>

\* The pattern `if err != nil { return 0, 0, err }` after a call whose error
\* was e; on success Upload goes on at nextPc.
FatalOr(e, nextPc) ==
    IF e # Nil THEN Return(0, 0, e)
    ELSE /\ pc' = nextPc
         /\ UNCHANGED <<successCount, failCount, err>>

\* A loop that stops at the first entry with an error (break for continue).
ContinueLoop_Break(idx, e) == IF e # Nil THEN NumEntries + 1 ELSE idx + 1

\* `continue` and the loop's i++: the next entry, whatever happened to this one.
ContinueLoop(idx, e) == idx + 1

\* A sub-count added twice.
Accumulate_Twice(total, sub) == total + sub + sub

\* Totals overwritten by the last entry's sub-count (= for +=).
Accumulate_Overwrite(total, sub) == sub

\* failCount += failed, successCount += uploaded
Accumulate(total, sub) == total + sub

\* The descriptors of earlier entries are lost (= for append).
AppendArtifacts_Replace(infos, artifacts) == artifacts

\* filesInfo = append(filesInfo, artifacts...)
AppendArtifacts(infos, artifacts) == infos \o artifacts

\* The errors-occurred flag is not consulted.
LoopOutcome_FlagIgnored(errOcc, fc) == IF fc > 0 THEN "soft" ELSE "buildinfo"

\* Failed files are reported as an error.
LoopOutcome_SoftIsError(errOcc, fc) ==
    IF errOcc \/ fc > 0 THEN "error" ELSE "buildinfo"

\* The two tests in the other order: failed files hide the error.
LoopOutcome_SoftFirst(errOcc, fc) ==
    IF fc > 0 THEN "soft" ELSE IF errOcc THEN "error" ELSE "buildinfo"

\* The decision after the loop, upload.go:76-85.
LoopOutcome(errOcc, fc) ==
    IF errOcc THEN "error" ELSE IF fc > 0 THEN "soft" ELSE "buildinfo"

\* upload.go:24-27
GetJfrogSecurityDir ==
    /\ pc = "GetJfrogSecurityDir"
    /\ \E e \in {Nil, ErrSecurityDir} :
          /\ calls' = Append(calls, SimpleCall("GetJfrogSecurityDir", 0, e))
          /\ FatalOr(e, "getMinChecksumDeploySize")
    /\ UNCHANGED <<uploadSpec, configuration, env, i, minChecksumDeploySize,
                   servicesManager, filesInfo, errorOccurred, partial, givenSpec, buildProps, uploadParams>>

\* upload.go:28-31
ResolveMinChecksumDeploySize ==
    /\ pc = "getMinChecksumDeploySize"
    /\ LET r == getMinChecksumDeploySize(env)
       IN  /\ minChecksumDeploySize' = r.val
           /\ calls' = Append(calls, SimpleCall("getMinChecksumDeploySize", 0, r.err))
           /\ FatalOr(r.err, "createUploadServiceConfig")
    /\ UNCHANGED <<uploadSpec, configuration, env, i, servicesManager, filesInfo,
                   errorOccurred, partial, givenSpec, buildProps, uploadParams>>

\* upload.go:32-35 and 103-117: the authentication details or the builder
\* may fail.
CreateUploadServiceConfig ==
    /\ pc = "createUploadServiceConfig"
    /\ \E e \in {Nil, ErrArtAuth, ErrConfigBuild} :
          /\ calls' = Append(calls, SimpleCall("createUploadServiceConfig", 0, e))
          /\ FatalOr(e, "artifactory.New")
    /\ UNCHANGED <<uploadSpec, configuration, env, i, minChecksumDeploySize,
                   servicesManager, filesInfo, errorOccurred, partial, givenSpec, buildProps, uploadParams>>

\* upload.go:36-39
NewServicesManager ==
    /\ pc = "artifactory.New"
    /\ \E e \in {Nil, ErrNewManager} :
          /\ calls' = Append(calls, SimpleCall("artifactory.New", 0, e))
          /\ servicesManager' =
               IF e = Nil
               THEN [built |-> TRUE, DryRun |-> configuration.DryRun,
                     MinChecksumDeploy |-> minChecksumDeploySize,
                     Threads |-> configuration.Threads]
               ELSE servicesManager
          /\ FatalOr(e, "preflight")
    /\ UNCHANGED <<uploadSpec, configuration, env, i, minChecksumDeploySize,
                   filesInfo, errorOccurred, partial, givenSpec, buildProps, uploadParams>>

\* upload.go:43-46, build info is collected
SaveBuildGeneralDetails ==
    /\ pc = "preflight"
    /\ isCollectBuildInfo(configuration) /\ ~configuration.DryRun
    /\ \E e \in {Nil, ErrGeneralDetails} :
          /\ calls' = Append(calls, SimpleCall("SaveBuildGeneralDetails", 0, e))
          /\ FatalOr(e, "addBuildProps")
    /\ i' = 1
    /\ UNCHANGED <<uploadSpec, configuration, env, minChecksumDeploySize,
                   servicesManager, filesInfo, errorOccurred, partial, givenSpec, buildProps, uploadParams>>

\* upload.go:43, build info is not collected
SkipBuildInfoPreflight ==
    /\ pc = "preflight"
    /\ ~(isCollectBuildInfo(configuration) /\ ~configuration.DryRun)
    /\ pc' = "loop"
    /\ i' = 1
    /\ UNCHANGED <<uploadSpec, configuration, env, minChecksumDeploySize,
                   servicesManager, filesInfo, errorOccurred, successCount,
                   failCount, err, partial, calls, givenSpec, buildProps, uploadParams>>

\* upload.go:47-49, one iteration: the error addBuildProps returns is dropped.
InjectBuildProps ==
    /\ pc = "addBuildProps"
    /\ i <= NumEntries
    /\ \E formatted \in CreateBuildProperties(configuration.BuildName,
                                              configuration.BuildNumber) :
          LET r == addBuildProps(uploadSpec[i].Props, configuration.BuildName,
                                 configuration.BuildNumber, formatted)
          IN  /\ uploadSpec' = [uploadSpec EXCEPT ![i].Props = r.props]
              /\ buildProps' = formatted.props
              /\ calls' = Append(calls, SimpleCall("addBuildProps", i, r.err))
    /\ i' = i + 1
    /\ UNCHANGED <<configuration, env, pc, minChecksumDeploySize, servicesManager,
                   filesInfo, errorOccurred, successCount, failCount, err,
                   partial, givenSpec, uploadParams>>

\* The injection loop left one entry early (i < len - 1 for i < len).
PreflightDone_OffByOne ==
    /\ pc = "addBuildProps"
    /\ i > NumEntries - 1
    /\ pc' = "loop"
    /\ i' = 1
    /\ UNCHANGED <<uploadSpec, configuration, env, minChecksumDeploySize,
                   servicesManager, filesInfo, errorOccurred, successCount,
                   failCount, err, partial, calls, givenSpec, buildProps,
                   uploadParams>>

\* upload.go:47, the loop ends
PreflightDone ==
    /\ pc = "addBuildProps"
    /\ i > NumEntries
    /\ pc' = "loop"
    /\ i' = 1
    /\ UNCHANGED <<uploadSpec, configuration, env, minChecksumDeploySize,
                   servicesManager, filesInfo, errorOccurred, successCount,
                   failCount, err, partial, calls, givenSpec, buildProps, uploadParams>>

\* upload.go:57-62, one iteration whose getUploadParams fails
UploadLoopParamsError ==
    /\ pc = "loop"
    /\ i <= NumEntries
    /\ LET r == getUploadParams(uploadSpec[i], configuration)
       IN  /\ r.err # Nil
           /\ uploadParams' = r.params
           /\ errorOccurred' = TRUE
           /\ calls' = Append(calls, SimpleCall("getUploadParams", i, r.err))
           /\ i' = ContinueLoop(i, r.err)
    /\ UNCHANGED <<uploadSpec, configuration, env, pc, minChecksumDeploySize,
                   servicesManager, filesInfo, successCount, failCount, err,
                   partial, givenSpec, buildProps>>

\* The descriptor the client returns for the k-th file it transferred for
\* params.
FileInfo(params, k) ==
    [LocalPath |-> <<params.Pattern, k>>,
     ArtifactoryPath |-> <<params.Target, k>>,
     Sha1 |-> <<"sha1", params.Pattern, k>>,
     Md5 |-> <<"md5", params.Pattern, k>>]

\* What servicesManager.UploadFiles(params) may return: a descriptor for
\* each transferred file, the two sub-counts, which together do not exceed
\* the files the pattern matches, and possibly an error.
UploadFilesResults(params) ==
    { [artifacts |-> [k \in 1..u |-> FileInfo(params, k)], uploaded |-> u,
       failed |-> f, err |-> e]
      : u \in 0..Matched(params.Pattern), f \in 0..Matched(params.Pattern),
        e \in {Nil, ErrTransfer} }

\* upload.go:57-73, one iteration whose getUploadParams succeeds
UploadLoopTransfer ==
    /\ pc = "loop"
    /\ i <= NumEntries
    /\ LET r == getUploadParams(uploadSpec[i], configuration)
       IN  /\ r.err = Nil
           /\ uploadParams' = r.params
           /\ \E res \in UploadFilesResults(r.params) :
                 /\ res.uploaded + res.failed <= Matched(r.params.Pattern)
                 /\ filesInfo' = AppendArtifacts(filesInfo, res.artifacts)
                 /\ failCount' = Accumulate(failCount, res.failed)
                 /\ successCount' = Accumulate(successCount, res.uploaded)
                 /\ errorOccurred' = (errorOccurred \/ res.err # Nil)
                 /\ calls' = calls \o
                      << SimpleCall("getUploadParams", i, Nil),
                         Call("UploadFiles", i, res.err, res.uploaded, res.failed,
                              res.artifacts) >>
                 /\ i' = ContinueLoop(i, res.err)
    /\ UNCHANGED <<uploadSpec, configuration, env, pc, minChecksumDeploySize,
                   servicesManager, err, partial, givenSpec, buildProps>>

\* upload.go:76-79
ReturnFinishedWithErrors ==
    /\ pc = "loop"
    /\ i > NumEntries
    /\ LoopOutcome(errorOccurred, failCount) = "error"
    /\ Return(successCount, failCount, ErrFinishedWithErrors)
    /\ UNCHANGED <<uploadSpec, configuration, env, i, minChecksumDeploySize,
                   servicesManager, filesInfo, errorOccurred, partial, calls,
                   givenSpec, buildProps, uploadParams>>

\* upload.go:80-82
ReturnSoftFailure ==
    /\ pc = "loop"
    /\ i > NumEntries
    /\ LoopOutcome(errorOccurred, failCount) = "soft"
    /\ Return(successCount, failCount, err)
    /\ UNCHANGED <<uploadSpec, configuration, env, i, minChecksumDeploySize,
                   servicesManager, filesInfo, errorOccurred, partial, calls,
                   givenSpec, buildProps, uploadParams>>

\* The commit's failure returned the way an initialization failure is, with
\* zero counts.
SavePartialBuildInfo_ZeroCounts ==
    /\ pc = "loop"
    /\ i > NumEntries
    /\ LoopOutcome(errorOccurred, failCount) = "buildinfo"
    /\ isCollectBuildInfo(configuration) /\ ~configuration.DryRun
    /\ \E e \in {Nil, ErrPartialSave} :
          /\ partial' = [saved |-> e = Nil,
                         Artifacts |-> convertFileInfoToBuildArtifacts(filesInfo)]
          /\ calls' = Append(calls, SimpleCall("SavePartialBuildInfo", 0, e))
          /\ IF e # Nil THEN Return(0, 0, e) ELSE Return(successCount, failCount, e)
    /\ UNCHANGED <<uploadSpec, configuration, env, i, minChecksumDeploySize,
                   servicesManager, filesInfo, errorOccurred, givenSpec,
                   buildProps, uploadParams>>

\* upload.go:85-92, build info is collected
SavePartialBuildInfo ==
    /\ pc = "loop"
    /\ i > NumEntries
    /\ LoopOutcome(errorOccurred, failCount) = "buildinfo"
    /\ isCollectBuildInfo(configuration) /\ ~configuration.DryRun
    /\ \E e \in {Nil, ErrPartialSave} :
          /\ partial' = [saved |-> e = Nil,
                         Artifacts |-> convertFileInfoToBuildArtifacts(filesInfo)]
          /\ calls' = Append(calls, SimpleCall("SavePartialBuildInfo", 0, e))
          /\ Return(successCount, failCount, e)
    /\ UNCHANGED <<uploadSpec, configuration, env, i, minChecksumDeploySize,
                   servicesManager, filesInfo, errorOccurred, givenSpec, buildProps, uploadParams>>

\* upload.go:85 and 92, build info is not collected
ReturnWithoutBuildInfo ==
    /\ pc = "loop"
    /\ i > NumEntries
    /\ LoopOutcome(errorOccurred, failCount) = "buildinfo"
    /\ ~(isCollectBuildInfo(configuration) /\ ~configuration.DryRun)
    /\ Return(successCount, failCount, err)
    /\ UNCHANGED <<uploadSpec, configuration, env, i, minChecksumDeploySize,
                   servicesManager, filesInfo, errorOccurred, partial, calls,
                   givenSpec, buildProps, uploadParams>>

Next ==
    \/ GetJfrogSecurityDir
    \/ ResolveMinChecksumDeploySize
    \/ CreateUploadServiceConfig
    \/ NewServicesManager
    \/ SaveBuildGeneralDetails
    \/ SkipBuildInfoPreflight
    \/ InjectBuildProps
    \/ PreflightDone
    \/ UploadLoopParamsError
    \/ UploadLoopTransfer
    \/ ReturnFinishedWithErrors
    \/ ReturnSoftFailure
    \/ SavePartialBuildInfo
    \/ ReturnWithoutBuildInfo

Spec == Init /\ [][Next]_vars

\* getMinChecksumDeploySize on its own: Upload stands right before the call
\* (upload.go:28) with any value of the override, and makes the call.
InitMinSize ==
    /\ uploadSpec = <<>>
    /\ configuration \in { c \in Configurations : c.BuildName = <<>> /\ c.BuildNumber = <<>> /\ ~c.DryRun }
    /\ env \in EnvStrings
    /\ pc = "getMinChecksumDeploySize"
    /\ i = 0
    /\ minChecksumDeploySize = 0
    /\ servicesManager = NoManager
    /\ filesInfo = <<>>
    /\ errorOccurred = FALSE
    /\ successCount = 0
    /\ failCount = 0
    /\ err = Nil
    /\ partial = NoPartial
    /\ calls = << SimpleCall("GetJfrogSecurityDir", 0, Nil) >>
    /\ givenSpec = uploadSpec
    /\ buildProps = <<>>
    /\ uploadParams = NoParams

NextMinSize == ResolveMinChecksumDeploySize

SpecMinSize == InitMinSize /\ [][NextMinSize]_vars

\* addBuildProps on its own: it is called once on the property string of a
\* single entry, with any build name and number; the formatter, if called,
\* fails, returns the fragment or returns an empty fragment.
PropsChars == {"a", "=", "1", ";"}

PropsStrings == SeqsUpTo(PropsChars, MaxPropsLen)

FormatterResults(buildName, buildNumber) ==
    CreateBuildProperties(buildName, buildNumber) \cup { [props |-> <<>>, err |-> Nil] }

InitProps ==
    /\ uploadSpec \in
         { << [Pattern |-> "a/*", Target |-> "repo/a/", Props |-> p,
               Recursive |-> "", Regexp |-> "", IncludeDirs |-> "", Flat |-> "",
               Explode |-> ""] >> : p \in PropsStrings }
    /\ configuration \in { c \in Configurations : ~c.DryRun }
    /\ env = <<>>
    /\ pc = "addBuildProps alone"
    /\ i = 1
    /\ minChecksumDeploySize = 0
    /\ servicesManager = NoManager
    /\ filesInfo = <<>>
    /\ errorOccurred = FALSE
    /\ successCount = 0
    /\ failCount = 0
    /\ err = Nil
    /\ partial = NoPartial
    /\ calls = <<>>
    /\ givenSpec = uploadSpec
    /\ buildProps = <<>>
    /\ uploadParams = NoParams

\* One call addBuildProps(&uploadSpec.Get(1).Props, BuildName, BuildNumber),
\* its error kept in err.
CallAddBuildProps ==
    /\ pc = "addBuildProps alone"
    /\ \E formatted \in FormatterResults(configuration.BuildName,
                                         configuration.BuildNumber) :
          LET r == addBuildProps(uploadSpec[1].Props, configuration.BuildName,
                                 configuration.BuildNumber, formatted)
          IN  /\ uploadSpec' = [uploadSpec EXCEPT ![1].Props = r.props]
              /\ buildProps' = IF r.formatterCalled THEN formatted.props ELSE buildProps
              /\ err' = r.err
              /\ calls' = calls
                   \o (IF r.formatterCalled
                       THEN << SimpleCall("CreateBuildProperties", 1, formatted.err) >>
                       ELSE <<>>)
                   \o << SimpleCall("addBuildProps", 1, r.err) >>
    /\ pc' = "done"
    /\ UNCHANGED <<configuration, env, i, minChecksumDeploySize, servicesManager,
                   filesInfo, errorOccurred, successCount, failCount, partial,
                   givenSpec, uploadParams>>

NextProps == CallAddBuildProps

SpecProps == InitProps /\ [][NextProps]_vars

\* getUploadParams on its own: it is called once on an entry whose five
\* overrides are each absent, a spelling of true, a spelling of false or no
\* boolean, with any Deb, Symlink, ExplodeArchive and Retries in the
\* configuration.
RawBools == {"", "true", "0", "maybe"}

ParamsEntries ==
    { [Pattern |-> "a/*", Target |-> "repo/a/", Props |-> <<>>,
       Recursive |-> r, Regexp |-> x, IncludeDirs |-> d, Flat |-> f,
       Explode |-> e]
      : r \in RawBools, x \in RawBools, d \in RawBools, f \in RawBools,
        e \in RawBools }

ParamsConfigurations ==
    { [Deb |-> deb, Threads |-> 3, BuildName |-> <<>>, BuildNumber |-> <<>>,
       DryRun |-> FALSE, Symlink |-> sym, ExplodeArchive |-> ex,
       Retries |-> retries]
      : deb \in {"", "deb/main/amd64"}, sym \in BOOLEAN, ex \in BOOLEAN,
        retries \in {0, 3} }

InitParams ==
    /\ uploadSpec \in { << f >> : f \in ParamsEntries }
    /\ configuration \in ParamsConfigurations
    /\ env = <<>>
    /\ pc = "getUploadParams alone"
    /\ i = 1
    /\ minChecksumDeploySize = 0
    /\ servicesManager = NoManager
    /\ filesInfo = <<>>
    /\ errorOccurred = FALSE
    /\ successCount = 0
    /\ failCount = 0
    /\ err = Nil
    /\ partial = NoPartial
    /\ calls = <<>>
    /\ givenSpec = uploadSpec
    /\ buildProps = <<>>
    /\ uploadParams = NoParams

\* One call getUploadParams(uploadSpec.Get(1), configuration), its error kept
\* in err.
CallGetUploadParams ==
    /\ pc = "getUploadParams alone"
    /\ LET r == getUploadParams(uploadSpec[1], configuration)
       IN  /\ uploadParams' = r.params
           /\ err' = r.err
           /\ calls' = Append(calls, SimpleCall("getUploadParams", 1, r.err))
    /\ pc' = "done"
    /\ UNCHANGED <<uploadSpec, configuration, env, i, minChecksumDeploySize,
                   servicesManager, filesInfo, errorOccurred, successCount,
                   failCount, partial, givenSpec, buildProps>>

NextParams == CallGetUploadParams

SpecParams == InitParams /\ [][NextParams]_vars

\* ------------------------------------------------------------ observations
CallsOf(op) == SelectSeq(calls, LAMBDA c : c.op = op)

Indices(s) == [k \in 1..Len(s) |-> s[k].i]

UpTo(n) == [k \in 1..n |-> k]

RECURSIVE SumUploaded(_)
SumUploaded(s) == IF s = <<>> THEN 0 ELSE s[1].uploaded + SumUploaded(Tail(s))

RECURSIVE SumFailed(_)
SumFailed(s) == IF s = <<>> THEN 0 ELSE s[1].failed + SumFailed(Tail(s))

RECURSIVE ConcatArtifacts(_)
ConcatArtifacts(s) == IF s = <<>> THEN <<>> ELSE s[1].artifacts \o ConcatArtifacts(Tail(s))

InitOps == {"GetJfrogSecurityDir", "getMinChecksumDeploySize",
            "createUploadServiceConfig", "artifactory.New"}

\* Initialization and preflight are over and none of their calls failed.
PreflightSucceeded ==
    /\ pc \in {"loop", "done"}
    /\ \A k \in 1..Len(calls) :
          calls[k].op \in InitOps \cup {"SaveBuildGeneralDetails"} => calls[k].err = Nil

\* Some entry failed to resolve its parameters or its transfer returned an error.
EntryErrors ==
    \E k \in 1..Len(calls) :
        calls[k].op \in {"getUploadParams", "UploadFiles"} /\ calls[k].err # Nil

\* An override that is absent or one of the spellings of a boolean.
Parseable(raw) ==
    raw \in {"", "1", "t", "T", "TRUE", "true", "True",
             "0", "f", "F", "FALSE", "false", "False"}

Resolvable(f) ==
    /\ Parseable(f.Recursive) /\ Parseable(f.Regexp) /\ Parseable(f.IncludeDirs)
    /\ Parseable(f.Flat) /\ Parseable(f.Explode)

BuildInfoRequested ==
    /\ Len(configuration.BuildName) > 0
    /\ Len(configuration.BuildNumber) > 0
    /\ ~configuration.DryRun

\* ------------------------------------------------------------------ claims
\* C1: once initialization and preflight have succeeded, the entries are
\* attempted one by one in specification order, each exactly once, whatever
\* happened to earlier entries, and UploadFiles is called exactly once for
\* each attempted entry whose parameters resolve, in the same order.
C1_EveryEntryAttemptedInOrder ==
    PreflightSucceeded =>
        LET attempted == IF pc = "done" THEN NumEntries ELSE i - 1
        IN  /\ Indices(CallsOf("getUploadParams")) = UpTo(attempted)
            /\ Indices(CallsOf("UploadFiles")) =
                   Indices(SelectSeq(CallsOf("getUploadParams"), LAMBDA c : c.err = Nil))

\* The run is over, the first of two entries had a client error and the
\* second was transferred all the same.
C1_Witness ==
    /\ pc = "done"
    /\ NumEntries = 2
    /\ \E k \in 1..Len(calls) :
          calls[k].op = "UploadFiles" /\ calls[k].i = 1 /\ calls[k].err # Nil
    /\ \E k \in 1..Len(calls) :
          calls[k].op = "UploadFiles" /\ calls[k].i = 2 /\ calls[k].uploaded > 0

\* C2: in a run that has come to the end of the transfer loop, the build-info
\* commit (SavePartialBuildInfo) is attempted, once, if and only if build name
\* and number are both non-empty, dry-run is false, no entry set the
\* errors-occurred flag and failCount is 0; it is never attempted earlier.
C2_CommitIffCleanTrackedRun ==
    /\ pc # "done" => CallsOf("SavePartialBuildInfo") = <<>>
    /\ Len(CallsOf("SavePartialBuildInfo")) <= 1
    /\ (pc = "done" /\ PreflightSucceeded) =>
          (CallsOf("SavePartialBuildInfo") # <<>>
             <=> (BuildInfoRequested /\ ~errorOccurred /\ ~EntryErrors /\ failCount = 0))

\* A commit after two entries were transferred.
C2_Witness ==
    /\ pc = "done"
    /\ NumEntries = 2
    /\ CallsOf("SavePartialBuildInfo") # <<>>
    /\ successCount > 0

\* C3: an entry whose parameters do not resolve gets no UploadFiles call, the
\* totals are the sums of the sub-counts of the other entries' calls (it adds
\* 0 to both), every later entry is attempted, and Upload returns an error.
C3_ParamsErrorSkipsEntryOnly ==
    \A k \in 1..Len(calls) :
        (calls[k].op = "getUploadParams" /\ calls[k].err # Nil) =>
            /\ \A m \in 1..Len(calls) :
                  calls[m].op = "UploadFiles" => calls[m].i # calls[k].i
            /\ successCount = SumUploaded(CallsOf("UploadFiles"))
            /\ failCount = SumFailed(CallsOf("UploadFiles"))
            /\ pc = "done" =>
                  /\ err # Nil
                  /\ \A j \in (calls[k].i + 1)..NumEntries :
                        \E m \in 1..Len(calls) :
                            calls[m].op = "getUploadParams" /\ calls[m].i = j

\* The first of two entries has an override that is no boolean, the second
\* transferred files, and the run is over.
C3_Witness ==
    /\ pc = "done"
    /\ NumEntries = 2
    /\ ~Resolvable(givenSpec[1])
    /\ \E k \in 1..Len(calls) :
          calls[k].op = "getUploadParams" /\ calls[k].i = 1 /\ calls[k].err # Nil
    /\ \E k \in 1..Len(calls) :
          calls[k].op = "UploadFiles" /\ calls[k].i = 2 /\ calls[k].uploaded > 0
    /\ successCount > 0

\* C4: a run in which files failed but no entry had a parameter error or a
\* client error returns the accumulated counts and a nil error, and makes no
\* build-info commit.
C4_SoftFailure ==
    (pc = "done" /\ ~EntryErrors /\ SumFailed(CallsOf("UploadFiles")) > 0) =>
        /\ err = Nil
        /\ successCount = SumUploaded(CallsOf("UploadFiles"))
        /\ failCount = SumFailed(CallsOf("UploadFiles"))
        /\ CallsOf("SavePartialBuildInfo") = <<>>
        /\ partial = NoPartial

\* Entry A 3/3, entry B 2/3, no client error: 5, 1, nil.
C4_Witness ==
    /\ pc = "done"
    /\ NumEntries = 2
    /\ ~EntryErrors
    /\ \E k \in 1..Len(calls) :
          /\ calls[k].op = "UploadFiles" /\ calls[k].i = 1
          /\ calls[k].uploaded = 3 /\ calls[k].failed = 0
    /\ \E k \in 1..Len(calls) :
          /\ calls[k].op = "UploadFiles" /\ calls[k].i = 2
          /\ calls[k].uploaded = 2 /\ calls[k].failed = 1
    /\ successCount = 5 /\ failCount = 1 /\ err = Nil

\* A value of the override that ParseInt accepts: an optional sign and digits.
IsNumeric(s) ==
    LET body == IF Len(s) > 0 /\ s[1] \in {"+", "-"} THEN Tail(s) ELSE s
    IN  Len(body) > 0 /\ \A k \in 1..Len(body) : body[k] \in Digits

\* C5: a failed initialization call is the last call of the run: Upload has
\* returned 0, 0 and that error, no UploadFiles, no build-info save, no
\* property string changed; a set, non-numeric override fails the resolution
\* of the minimum checksum size.
C5_InitFailureIsFatal ==
    \A k \in 1..Len(calls) :
        /\ (calls[k].op \in InitOps /\ calls[k].err # Nil) =>
              /\ k = Len(calls)
              /\ pc = "done"
              /\ successCount = 0 /\ failCount = 0 /\ err = calls[k].err
              /\ CallsOf("UploadFiles") = <<>>
              /\ CallsOf("SaveBuildGeneralDetails") = <<>>
              /\ CallsOf("SavePartialBuildInfo") = <<>>
              /\ CallsOf("addBuildProps") = <<>>
              /\ partial = NoPartial
              /\ filesInfo = <<>>
              /\ uploadSpec = givenSpec
        /\ (calls[k].op = "getMinChecksumDeploySize" /\ env # <<>> /\ ~IsNumeric(env)) =>
              calls[k].err # Nil

\* The override is set and not a number, in a run that had two entries to
\* transfer and a build to record.
C5_Witness ==
    /\ pc = "done"
    /\ NumEntries = 2
    /\ BuildInfoRequested
    /\ env # <<>> /\ ~IsNumeric(env)
    /\ calls[Len(calls)].op = "getMinChecksumDeploySize"
    /\ err = ErrParseInt

\* C6: a failed SaveBuildGeneralDetails is the last call of the run: Upload
\* has returned 0, 0 and that error, and no entry was resolved or transferred.
C6_GeneralDetailsFailureIsFatal ==
    \A k \in 1..Len(calls) :
        (calls[k].op = "SaveBuildGeneralDetails" /\ calls[k].err # Nil) =>
            /\ BuildInfoRequested
            /\ k = Len(calls)
            /\ pc = "done"
            /\ successCount = 0 /\ failCount = 0 /\ err = calls[k].err
            /\ CallsOf("UploadFiles") = <<>>
            /\ CallsOf("getUploadParams") = <<>>
            /\ filesInfo = <<>>

\* SaveBuildGeneralDetails failed with two entries waiting.
C6_Witness ==
    /\ pc = "done"
    /\ NumEntries = 2
    /\ Resolvable(givenSpec[1])
    /\ calls[Len(calls)].op = "SaveBuildGeneralDetails"
    /\ err = ErrGeneralDetails

\* C7: the resolved minimum checksum-deploy size is 10240000 bytes when the
\* override is unset, the same as for an override of 10240, and value * 1000
\* when the override is set and numeric.
C7_MinChecksumDeploySizeInBytes ==
    pc # "getMinChecksumDeploySize" =>
        /\ env = <<>> =>
              /\ err = Nil
              /\ minChecksumDeploySize = 10240000
              /\ minChecksumDeploySize =
                    getMinChecksumDeploySize(<<"1", "0", "2", "4", "0">>).val
        /\ (env # <<>> /\ IsNumeric(env)) =>
              /\ err = Nil
              /\ minChecksumDeploySize = ParseInt(env).val * 1000

\* C8: a failed build-property injection is not swallowed: the run goes on
\* through the transfer loop and the error Upload returns is non-nil.
C8_InjectionFailureReported ==
    (pc = "done" /\ \E k \in 1..Len(calls) :
                       calls[k].op = "addBuildProps" /\ calls[k].err # Nil) =>
        /\ Indices(CallsOf("getUploadParams")) = UpTo(NumEntries)
        /\ err # Nil

\* C9: a run whose loop ended with the errors-occurred flag set returns the
\* generic error, and its counts and descriptors are the sums and the
\* concatenation over every UploadFiles call, failed calls included, also
\* when files failed.
C9_HardErrorKeepsCounts ==
    (pc = "done" /\ (errorOccurred \/ EntryErrors)) =>
        /\ errorOccurred /\ EntryErrors
        /\ err = ErrFinishedWithErrors
        /\ successCount = SumUploaded(CallsOf("UploadFiles"))
        /\ failCount = SumFailed(CallsOf("UploadFiles"))
        /\ filesInfo = ConcatArtifacts(CallsOf("UploadFiles"))
        /\ CallsOf("SavePartialBuildInfo") = <<>>

\* The first entry's call returned an error with files transferred and files
\* failed, the second entry's call transferred files too.
C9_Witness ==
    /\ pc = "done"
    /\ \E k \in 1..Len(calls) :
          /\ calls[k].op = "UploadFiles" /\ calls[k].i = 1 /\ calls[k].err # Nil
          /\ calls[k].uploaded > 0 /\ calls[k].failed > 0
    /\ \E k \in 1..Len(calls) :
          /\ calls[k].op = "UploadFiles" /\ calls[k].i = 2 /\ calls[k].err = Nil
          /\ calls[k].uploaded > 0
    /\ failCount > 0
    /\ Len(filesInfo) = successCount

\* Every entry resolved its parameters and was transferred with no failed
\* file and no error.
AllEntriesTransferred ==
    /\ PreflightSucceeded
    /\ Indices(CallsOf("UploadFiles")) = UpTo(NumEntries)
    /\ \A k \in 1..Len(calls) : calls[k].op = "getUploadParams" => calls[k].err = Nil
    /\ \A k \in 1..Len(calls) :
          calls[k].op = "UploadFiles" => calls[k].failed = 0 /\ calls[k].err = Nil

C11_CommitFailureKeepsCounts ==
    \A k \in 1..Len(calls) :
        (calls[k].op = "SavePartialBuildInfo" /\ calls[k].err # Nil) =>
            /\ k = Len(calls)
            /\ pc = "done"
            /\ ~EntryErrors
            /\ SumFailed(CallsOf("UploadFiles")) = 0
            /\ err = calls[k].err
            /\ successCount = SumUploaded(CallsOf("UploadFiles"))
            /\ failCount = 0

\* Two entries transferred, 3 files and 1 file, and the commit failed.
C11_Witness ==
    /\ pc = "done"
    /\ NumEntries = 2
    /\ calls[Len(calls)].op = "SavePartialBuildInfo"
    /\ err = ErrPartialSave
    /\ successCount = 4
    /\ failCount = 0

\* Some call of initialization or preflight failed.
FatalCallFailed ==
    \E k \in 1..Len(calls) :
        calls[k].op \in InitOps \cup {"SaveBuildGeneralDetails"} /\ calls[k].err # Nil

CommitFailed ==
    \E k \in 1..Len(calls) :
        calls[k].op = "SavePartialBuildInfo" /\ calls[k].err # Nil

\* C12 as stated: the returned error is non-nil only when an entry failed to
\* resolve its parameters, a transfer returned an error or the build-info
\* save failed.
C12_AsStated ==
    (pc = "done" /\ err # Nil) => (EntryErrors \/ CommitFailed)

\* C12, amended: ... or a call of initialization (security directory,
\* minimum checksum size, service configuration, service client) or
\* SaveBuildGeneralDetails failed; in every other run the error is nil.
C12_ErrorOnlyWithCause ==
    (pc = "done" /\ err # Nil) => (EntryErrors \/ CommitFailed \/ FatalCallFailed)

\* A run of two entries that returned an error because the service client
\* could not be built.
C12_Witness ==
    /\ pc = "done"
    /\ NumEntries = 2
    /\ err = ErrNewManager
    /\ FatalCallFailed
    /\ ~EntryErrors /\ ~CommitFailed


\* No two separators in a row.
NoDoubledSeparator(s) ==
    \A k \in 1..(Len(s) - 1) : ~(s[k] = ";" /\ s[k + 1] = ";")

\* C13: with build name and number non-empty and a formatter that succeeds,
\* addBuildProps leaves old + sep + fragment, sep being ";" exactly when old
\* is non-empty, does not end with ";" and the fragment is non-empty; "a=1"
\* with the fragment build.name=x;build.number=1 gives
\* a=1;build.name=x;build.number=1, and "a=1;" gives no doubled separator.
C13_AppendRule ==
    (/\ pc = "done"
     /\ configuration.BuildName # <<>> /\ configuration.BuildNumber # <<>>
     /\ err = Nil) =>
        LET old == givenSpec[1].Props
            new == uploadSpec[1].Props
            sep == IF old # <<>> /\ old[Len(old)] # ";" /\ buildProps # <<>>
                   THEN <<";">> ELSE <<>>
            fragment == <<"b", "u", "i", "l", "d", ".", "n", "a", "m", "e", "=", "x", ";",
                          "b", "u", "i", "l", "d", ".", "n", "u", "m", "b", "e", "r", "=",
                          "1">>
        IN  /\ new = old \o sep \o buildProps
            /\ (old = <<"a", "=", "1">> /\ buildProps = fragment) =>
                  new = <<"a", "=", "1", ";">> \o fragment
            /\ old = <<"a", "=", "1", ";">> =>
                  /\ NoDoubledSeparator(new)
                  /\ new = old \o buildProps

\* "a=1" became a=1;build.name=x;build.number=1.
C13_Witness ==
    /\ pc = "done"
    /\ givenSpec[1].Props = <<"a", "=", "1">>
    /\ Len(uploadSpec[1].Props) = 31
    /\ uploadSpec[1].Props[4] = ";"
    /\ SubSeq(uploadSpec[1].Props, 5, 16) =
          <<"b", "u", "i", "l", "d", ".", "n", "a", "m", "e", "=", "x">>
    /\ err = Nil

\* C14: addBuildProps leaves the property string as it was when it appends
\* nothing: with build name or number empty it returns nil and the formatter
\* is not called; when the formatter fails it returns the formatter's error.
C14_NoAppendNoChange ==
    pc = "done" =>
        /\ (configuration.BuildName = <<>> \/ configuration.BuildNumber = <<>>) =>
              /\ err = Nil
              /\ uploadSpec = givenSpec
              /\ CallsOf("CreateBuildProperties") = <<>>
        /\ \A k \in 1..Len(calls) :
              (calls[k].op = "CreateBuildProperties" /\ calls[k].err # Nil) =>
                  /\ err = calls[k].err
                  /\ uploadSpec = givenSpec

\* The formatter failed on a non-empty property string.
C14_Witness ==
    /\ pc = "done"
    /\ givenSpec[1].Props = <<"a", "=", "1">>
    /\ CallsOf("CreateBuildProperties") # <<>>
    /\ err = ErrBuildProps


\* C15: when the build-info commit is made, the artifact list of the partial
\* build-info record is as long as the run's descriptor collection and its
\* k-th record is the projection of the k-th descriptor, the descriptors
\* being those of the UploadFiles calls in entry order and, within a call, in
\* the order the client returned them.
C15_ArtifactsMirrorDescriptors ==
    \A k \in 1..Len(calls) :
        calls[k].op = "SavePartialBuildInfo" =>
            LET descriptors == ConcatArtifacts(CallsOf("UploadFiles"))
            IN  /\ filesInfo = descriptors
                /\ Len(partial.Artifacts) = Len(descriptors)
                /\ \A j \in 1..Len(descriptors) :
                      partial.Artifacts[j] = ToBuildArtifacts(descriptors[j])

\* A commit of four records: three files of the first entry, then one of the
\* second, an entry with another target.
C15_Witness ==
    /\ pc = "done"
    /\ NumEntries = 2
    /\ givenSpec[1].Target # givenSpec[2].Target
    /\ CallsOf("SavePartialBuildInfo") # <<>>
    /\ Len(partial.Artifacts) = 4
    /\ \E k \in 1..Len(calls) :
          calls[k].op = "UploadFiles" /\ calls[k].i = 1 /\ calls[k].uploaded = 3
    /\ partial.Artifacts[3].Name # partial.Artifacts[1].Name


\* C16: whenever the resolution of the minimum checksum-deploy size returns
\* no error, the size is >= 0.
C16_MinSizeNonNegative ==
    (pc # "getMinChecksumDeploySize" /\ err = Nil) => minChecksumDeploySize >= 0


RECURSIVE Discovered(_)
\* The files matched by the patterns of the entries of the UploadFiles calls s.
Discovered(s) ==
    IF s = <<>> THEN 0
    ELSE Matched(givenSpec[s[1].i].Pattern) + Discovered(Tail(s))

\* C17: at every point of a run the two counts are non-negative, together
\* they are at most the files discovered for the entries transferred so far,
\* and they are the sums of the sub-counts of the UploadFiles calls made (the
\* client returning non-negative sub-counts within the files of its entry).
C17_CountsWithinDiscovered ==
    /\ successCount >= 0
    /\ failCount >= 0
    /\ successCount + failCount <= Discovered(CallsOf("UploadFiles"))
    /\ successCount = SumUploaded(CallsOf("UploadFiles"))
    /\ failCount = SumFailed(CallsOf("UploadFiles"))

\* In the middle of the loop: the first of two entries had all of its three
\* files counted, two transferred and one failed.
C17_Witness ==
    /\ pc = "loop"
    /\ NumEntries = 2
    /\ i = 2
    /\ successCount = 2
    /\ failCount = 1
    /\ Discovered(CallsOf("UploadFiles")) = 3


\* The value an override stands for: the default when absent, else whether it
\* spells true.
Expected(raw, defaultValue) ==
    IF raw = "" THEN defaultValue
    ELSE raw \in {"1", "t", "T", "TRUE", "true", "True"}

\* C18: getUploadParams returns an error exactly when some override is there
\* and is no boolean; otherwise each of the five booleans is the entry's
\* override, or its default (recursive true, regexp false, include-dirs
\* false, flat true, explode-archive false) when the override is absent, Deb,
\* Symlink and Retries are the configuration's, and the configuration's
\* ExplodeArchive plays no part.
C18_ParamsResolved ==
    pc = "done" =>
        LET f == givenSpec[1]
        IN  /\ err # Nil <=> ~Resolvable(f)
            /\ err = Nil =>
                  /\ uploadParams.Recursive = Expected(f.Recursive, TRUE)
                  /\ uploadParams.Regexp = Expected(f.Regexp, FALSE)
                  /\ uploadParams.IncludeDirs = Expected(f.IncludeDirs, FALSE)
                  /\ uploadParams.Flat = Expected(f.Flat, TRUE)
                  /\ uploadParams.ExplodeArchive = Expected(f.Explode, FALSE)
                  /\ uploadParams.Deb = configuration.Deb
                  /\ uploadParams.Symlink = configuration.Symlink
                  /\ uploadParams.Retries = configuration.Retries

\* The entry overrides recursive to false and flat to false and leaves the
\* rest absent, the configuration asks for exploding archives: resolved
\* without error, explode-archive false.
C18_Witness ==
    /\ pc = "done"
    /\ err = Nil
    /\ givenSpec[1].Recursive = "0" /\ givenSpec[1].Flat = "0"
    /\ givenSpec[1].Regexp = "" /\ givenSpec[1].Explode = ""
    /\ configuration.ExplodeArchive
    /\ ~uploadParams.Recursive /\ ~uploadParams.Flat
    /\ ~uploadParams.ExplodeArchive
    /\ uploadParams.Retries = 3


\* C19: when build tracking is not requested (build name or number empty) or
\* dry-run is set, no run calls SaveBuildGeneralDetails, injects build
\* properties or calls SavePartialBuildInfo, and every entry's property
\* string stays as given, whatever the transfers return.
C19_NoBuildInfoSideEffects ==
    ~BuildInfoRequested =>
        /\ CallsOf("SaveBuildGeneralDetails") = <<>>
        /\ CallsOf("SavePartialBuildInfo") = <<>>
        /\ CallsOf("addBuildProps") = <<>>
        /\ partial = NoPartial
        /\ uploadSpec = givenSpec

\* A dry run with build name and number given, two entries with property
\* strings, all files transferred.
C19_Witness ==
    /\ pc = "done"
    /\ configuration.DryRun
    /\ configuration.BuildName # <<>> /\ configuration.BuildNumber # <<>>
    /\ NumEntries = 2
    /\ givenSpec[1].Props # <<>>
    /\ successCount > 0
    /\ err = Nil

\* The phase of a call.
Phase(op) ==
    CASE op = "GetJfrogSecurityDir" -> 1
      [] op = "getMinChecksumDeploySize" -> 2
      [] op = "createUploadServiceConfig" -> 3
      [] op = "artifactory.New" -> 4
      [] op = "SaveBuildGeneralDetails" -> 5
      [] op = "addBuildProps" -> 6
      [] op \in {"getUploadParams", "UploadFiles"} -> 7
      [] op = "SavePartialBuildInfo" -> 8

StrictlyIncreasing(s) == \A k \in 1..(Len(s) - 1) : s[k] < s[k + 1]

\* The position of Upload as a number that grows along the code.
PcRank(p) ==
    CASE p = "GetJfrogSecurityDir" -> 1
      [] p = "getMinChecksumDeploySize" -> 2
      [] p = "createUploadServiceConfig" -> 3
      [] p = "artifactory.New" -> 4
      [] p = "preflight" -> 5
      [] p = "addBuildProps" -> 6
      [] p = "loop" -> 7
      [] p = "done" -> 8

\* The calls made so far come in phase order.
C20_CallsInPhaseOrder ==
    LET general  == CallsOf("SaveBuildGeneralDetails")
        injected == Indices(CallsOf("addBuildProps"))
        uploads  == Indices(CallsOf("UploadFiles"))
    IN  /\ \A k \in 1..(Len(calls) - 1) :
              Phase(calls[k].op) <= Phase(calls[k + 1].op)
        /\ Len(CallsOf("artifactory.New")) <= 1
        /\ Len(general) <= 1
        /\ Len(CallsOf("SavePartialBuildInfo")) <= 1
        /\ \A k \in 1..Len(calls) :
              /\ Phase(calls[k].op) > 4 =>
                    \E m \in 1..(k - 1) :
                        calls[m].op = "artifactory.New" /\ calls[m].err = Nil
              /\ (Phase(calls[k].op) = 7 /\ general # <<>>) =>
                    injected = UpTo(NumEntries)
              /\ calls[k].op = "SavePartialBuildInfo" =>
                    k = Len(calls) /\ pc = "done"
        /\ StrictlyIncreasing(injected)
        /\ StrictlyIncreasing(uploads)
        /\ Len(uploads) <= NumEntries

\* A run that has not returned has a next step. At the head of a loop
\* iteration the step is one of the two iterations, whose enabling conditions
\* are written out.
C20_CanStep ==
    CASE pc = "done" -> TRUE
      [] pc = "loop" /\ i <= NumEntries ->
            LET r == getUploadParams(uploadSpec[i], configuration)
            IN  \/ r.err # Nil
                \/ \E res \in UploadFilesResults(r.params) :
                      res.uploaded + res.failed <= Matched(r.params.Pattern)
      [] OTHER -> ENABLED Next

\* Every step moves Upload forward: to a later position, or to the next
\* entry of the loop it is in.
C20_StepForward ==
    \/ PcRank(pc') > PcRank(pc)
    \/ /\ pc' = pc
       /\ pc \in {"addBuildProps", "loop"}
       /\ i' = i + 1
       /\ i <= NumEntries

\* C20: the calls of a run come in phase order: the construction of the
\* service client, then SaveBuildGeneralDetails (at most once), then the
\* injection of every entry (each once, in order), then the UploadFiles
\* calls (at most one per entry, N at most), then SavePartialBuildInfo (at
\* most once, the last call of the run); a run that has not returned can
\* take a step and every step moves it forward, so it returns after at most
\* N UploadFiles calls.
C20_PhaseOrder ==
    /\ [](C20_CallsInPhaseOrder /\ C20_CanStep)
    /\ [][C20_StepForward]_vars

\* A run through every phase: general details saved, two entries injected,
\* two entries transferred, build info committed.
C20_Witness ==
    /\ pc = "done"
    /\ NumEntries = 2
    /\ Len(CallsOf("SaveBuildGeneralDetails")) = 1
    /\ Len(CallsOf("addBuildProps")) = 2
    /\ Len(CallsOf("UploadFiles")) = 2
    /\ Len(CallsOf("SavePartialBuildInfo")) = 1
    /\ Len(calls) = 12

====
